---- MODULE Spec2Model ----
(***************************************************************************)
(* The client-side cache (StorageService over the browser's localStorage)  *)
(* and the retry helper (withRetry) of the astrology application.          *)
(*                                                                         *)
(* JavaScript values are named by strings: "null", "undefined", and the   *)
(* payloads "resultA", "resultB".  A localStorage item is a text: a        *)
(* sequence of tokens, which JSONstringify writes and JSONparse reads.     *)
(* Time is Date.now(), counted in seconds: the 720 hours of a coordinates  *)
(* entry are 2 592 000 000 ms, more than a 32-bit integer holds. The       *)
(* timestamp and the expiry of an entry are in the same unit, so the       *)
(* comparison in get is the program's.                                     *)
(***************************************************************************)
EXTENDS Integers, Sequences, FiniteSets, TLC

VARIABLES
    localStorage,   \* the browser store: storage key -> text (a partial map)
    now,            \* Date.now(), in seconds
    ticks,          \* number of clock advances so far (bounded by MaxTicks)
    writes,         \* number of writes to the store so far (bounded by MaxWrites)
    lastCall,       \* the StorageService call made by the step just taken (none
                    \* after a clock advance or an external write) and its outcome
    lastSave,       \* per cache key: who wrote its record last, and what a save wrote
    chain,          \* per withRetry call chain: where it is and its arguments
    hist,           \* per call chain: what it has done so far
    req,            \* per caller: the domain operation it has called and how far it is
    ttls,           \* per revision and kind of content: the ttlHours handed to save
    horo,           \* HoroscopeView: its React state and its fetches in flight
    kundali,        \* KundaliView: its React state, its submit and question in flight
    numerology      \* NumerologyView: the date of birth and the numbers derived from it

storageVars == <<localStorage, now, ticks, writes, lastCall, lastSave>>

retryVars == <<chain, hist>>

requestVars == <<req>>

localVars == <<ttls, horo, kundali, numerology>>

vars == <<localStorage, now, ticks, writes, lastCall, lastSave, chain, hist, req, ttls, horo, kundali, numerology>>

-----------------------------------------------------------------------------
(* Bounds of the model *)

MaxTicks == 2

MaxWrites == 2

MaxRetries == 3

MaxFetches == 3

MaxQuestions == 2

MaxCharts == 2

-----------------------------------------------------------------------------
(* Program constants and input domains *)

CACHE_PREFIX == "jyotish_cache_"

\* ttlHours * 60 * 60 * 1000 ms, in seconds
UnitsPerHour == 60 * 60

INFINITE_TTL == -1

\* cache keys as getKeys.horoscope and getCoordinates build them
Keys == {"horo_Aries_daily_English", "coords_pune"}

\* payloads handed to save: JSON-decoded results of the remote call
Values == {"resultA", "resultB"}

\* ttlHours arguments of save; -1 is the value the comment in get calls infinite
TtlHours == {INFINITE_TTL, 1}

\* clock advances: one unit, one hour
TickSteps == {1, UnitsPerHour}

\* call chains of withRetry
Chains == {"c1"}

\* the delay arguments of withRetry: its defaults in the three revisions
Delays == {1000, 1500, 2000}

\* what the wrapped operation throws and returns
Errors == {"NetworkError", "Decoding failed.", "API_KEY missing."}

\* the callers of the domain operations: App's background sync and the view
Requests == {"syncData", "view"}

\* withRetry's default arguments
DEFAULT_RETRIES == 2

DEFAULT_DELAY == 2000

\* locations typed into a form, character by character
Locations == {<<"N", " ", "D">>, <<"n", "\t", "d">>}

\* what parseAIResponse returns: decoded objects, or the decoded text null
RemoteResults == {"resultA", "resultB", "null"}

\* what the wrapped operation of a domain operation throws
RemoteErrors == {"NetworkError", "Decoding failed."}

\* clock advances between the steps of requests: one unit, twelve hours
ElapseSteps == {1, 12 * UnitsPerHour}

\* what a user of HoroscopeView can select: sign, timeframe, language
Selections == {"Aries", "Taurus"} \X {"daily", "weekly"} \X {"English", "Hindi"}

-----------------------------------------------------------------------------
(* Texts: what localStorage holds *)

S(s) == [tok |-> s, num |-> 0]

N(n) == [tok |-> "#", num |-> n]

IsNum(t) == t.tok = "#"

StorageKey(key) == <<CACHE_PREFIX, key>>

\* JSON.stringify of a CacheEntry {data, timestamp, expiry}: a property whose
\* value is undefined is left out, every other property is written in order.
JSONstringify(entry) ==
    <<S("{")>>
    \o (IF entry.data = "undefined" THEN <<>> ELSE <<S("data"), S(entry.data)>>)
    \o <<S("timestamp"), N(entry.timestamp), S("expiry"), N(entry.expiry), S("}")>>

\* A text is a JSON object when it is brace-delimited name/value pairs.
IsObjectText(t) ==
    /\ Len(t) >= 2
    /\ Len(t) % 2 = 0
    /\ t[1] = S("{")
    /\ t[Len(t)] = S("}")
    /\ \A i \in 1..((Len(t) - 2) \div 2) :
          /\ ~IsNum(t[2 * i])
          /\ t[2 * i].tok \notin {"{", "}"}
          /\ t[2 * i + 1].tok \notin {"{", "}"}

\* JSON.parse: an object text gives an object (the last pair that names a
\* property gives its value), the text null gives null, and anything else
\* (a truncated object, a bare word) throws a SyntaxError.
JSONparse(t) ==
    IF t = <<S("null")>> THEN [kind |-> "null", props |-> << >>]
    ELSE IF ~IsObjectText(t) THEN [kind |-> "SyntaxError", props |-> << >>]
    ELSE LET pairs == 1..((Len(t) - 2) \div 2)
             last(n) == CHOOSE i \in pairs :
                            /\ t[2 * i].tok = n
                            /\ \A j \in pairs : t[2 * j].tok = n => j <= i
         IN [kind |-> "object",
             props |-> [n \in {t[2 * i].tok : i \in pairs} |-> t[2 * last(n) + 1]]]

HasProp(entry, name) == name \in DOMAIN entry.props

\* a property read as a number: NaN when the property is missing or not a number
IsNumber(entry, name) == HasProp(entry, name) /\ IsNum(entry.props[name])

\* isExpired with the comparison turned round
isExpired_Reversed(entry, at) ==
    /\ IsNumber(entry, "timestamp")
    /\ IsNumber(entry, "expiry")
    /\ at - entry.props["timestamp"].num < entry.props["expiry"].num

\* isExpired that counts an age equal to the expiry as expired
isExpired_AtTtl(entry, at) ==
    /\ IsNumber(entry, "timestamp")
    /\ IsNumber(entry, "expiry")
    /\ at - entry.props["timestamp"].num >= entry.props["expiry"].num

\* Date.now() - entry.timestamp > entry.expiry; a NaN operand makes the
\* comparison false.
isExpired(entry, at) ==
    /\ IsNumber(entry, "timestamp")
    /\ IsNumber(entry, "expiry")
    /\ at - entry.props["timestamp"].num > entry.props["expiry"].num

\* entry.expiry !== -1
notInfinite(entry) ==
    ~(HasProp(entry, "expiry") /\ entry.props["expiry"] = N(INFINITE_TTL))

\* entry.data
entryData(entry) ==
    IF HasProp(entry, "data") THEN entry.props["data"].tok ELSE "undefined"

\* localStorage.removeItem
removeItem(st, sk) == [x \in (DOMAIN st) \ {sk} |-> st[x]]

\* localStorage.setItem
setItem(st, sk, text) == [x \in (DOMAIN st) \cup {sk} |-> IF x = sk THEN text ELSE st[x]]

-----------------------------------------------------------------------------
(* StorageService *)

\* what a call gives back: a returned value or a thrown error, and the store
Outcome(ret, threw, st) == [ret |-> ret, threw |-> threw, store |-> st]

\* save that keeps the timestamp of the record it replaces
save_KeepsTimestamp(st, at, key, data, ttlHours, failWrite) ==
    LET sk == StorageKey(key)
        old == IF sk \in DOMAIN st THEN JSONparse(st[sk]) ELSE JSONparse(<<>>)
        ts == IF IsNumber(old, "timestamp") THEN old.props["timestamp"].num ELSE at
        entry == [data |-> data, timestamp |-> ts, expiry |-> ttlHours * UnitsPerHour]
    IN IF failWrite
       THEN Outcome("QuotaExceededError", TRUE, st)
       ELSE Outcome("undefined", FALSE, setItem(st, sk, JSONstringify(entry)))

\* StorageService.save: builds the entry and writes it; a setItem that throws
\* (quota exceeded) is not caught.
save(st, at, key, data, ttlHours, failWrite) ==
    LET entry == [data |-> data, timestamp |-> at, expiry |-> ttlHours * UnitsPerHour]
    IN IF failWrite
       THEN Outcome("QuotaExceededError", TRUE, st)
       ELSE Outcome("undefined", FALSE, setItem(st, StorageKey(key), JSONstringify(entry)))

\* get without its try/catch
get_NoCatch(st, at, key, failRead) ==
    LET sk == StorageKey(key)
    IN IF failRead THEN Outcome("SecurityError", TRUE, st)
       ELSE IF sk \notin DOMAIN st \/ st[sk] = <<>> THEN Outcome("null", FALSE, st)
       ELSE LET entry == JSONparse(st[sk])
            IN IF entry.kind = "SyntaxError" THEN Outcome("SyntaxError", TRUE, st)
               ELSE IF entry.kind = "null" THEN Outcome("TypeError", TRUE, st)
               ELSE IF isExpired(entry, at) /\ notInfinite(entry)
                    THEN Outcome("null", FALSE, removeItem(st, sk))
                    ELSE Outcome(entryData(entry), FALSE, st)

\* get that reports an expired entry without removing it
get_NoRemove(st, at, key, failRead) ==
    LET sk == StorageKey(key)
    IN IF failRead THEN Outcome("SecurityError", TRUE, st)
       ELSE IF sk \notin DOMAIN st \/ st[sk] = <<>> THEN Outcome("null", FALSE, st)
       ELSE LET entry == JSONparse(st[sk])
            IN IF entry.kind = "SyntaxError" THEN Outcome("null", FALSE, st)
               ELSE IF entry.kind = "null" THEN Outcome("null", FALSE, st)
               ELSE IF isExpired(entry, at) /\ notInfinite(entry)
                    THEN Outcome("null", FALSE, st)
                    ELSE Outcome(entryData(entry), FALSE, st)

\* get that renews the timestamp of the entry it returns
get_Refreshes(st, at, key, failRead) ==
    LET sk == StorageKey(key)
    IN IF failRead THEN Outcome("SecurityError", TRUE, st)
       ELSE IF sk \notin DOMAIN st \/ st[sk] = <<>> THEN Outcome("null", FALSE, st)
       ELSE LET entry == JSONparse(st[sk])
            IN IF entry.kind = "SyntaxError" THEN Outcome("null", FALSE, st)
               ELSE IF entry.kind = "null" THEN Outcome("null", FALSE, st)
               ELSE IF isExpired(entry, at) /\ notInfinite(entry)
                    THEN Outcome("null", FALSE, removeItem(st, sk))
                    ELSE Outcome(entryData(entry), FALSE,
                                 IF IsNumber(entry, "expiry")
                                 THEN setItem(st, sk,
                                          JSONstringify([data |-> entryData(entry),
                                                         timestamp |-> at,
                                                         expiry |-> entry.props["expiry"].num]))
                                 ELSE st)

\* StorageService.get: getItem is outside the try block; JSON.parse, the
\* property reads on the parsed value (a TypeError when it is null) and
\* removeItem are inside it.
get(st, at, key, failRead) ==
    LET sk == StorageKey(key)
    IN IF failRead THEN Outcome("SecurityError", TRUE, st)
       ELSE IF sk \notin DOMAIN st \/ st[sk] = <<>> THEN Outcome("null", FALSE, st)
       ELSE LET entry == JSONparse(st[sk])
            IN IF entry.kind = "SyntaxError" THEN Outcome("null", FALSE, st)
               ELSE IF entry.kind = "null" THEN Outcome("null", FALSE, st)
               ELSE IF isExpired(entry, at) /\ notInfinite(entry)
                    THEN Outcome("null", FALSE, removeItem(st, sk))
                    ELSE Outcome(entryData(entry), FALSE, st)

-----------------------------------------------------------------------------
(* withRetry *)

Idle == [pc |-> "idle", retries |-> 0, delay |-> 0, timer |-> 0, outcome |-> ""]

\* withRetry(fn, retries, delay): the body starts by calling fn and awaits it
withRetry(retries, delay) ==
    [pc |-> "awaitFn", retries |-> retries, delay |-> delay, timer |-> 0, outcome |-> ""]

\* a success whose value is not handed on
onFulfilled_DropsValue(ch, value) == [ch EXCEPT !.pc = "resolved", !.outcome = "undefined"]

\* return await fn(): the promise of fn fulfils with value
onFulfilled(ch, value) == [ch EXCEPT !.pc = "resolved", !.outcome = value]

\* catch that retries once more than asked
onCatch_OneMore(ch, error) ==
    IF ch.retries >= 0
    THEN [ch EXCEPT !.pc = "awaitTimer", !.timer = ch.delay]
    ELSE [ch EXCEPT !.pc = "rejected", !.outcome = error]

\* catch that throws an error of its own when the retries are used up
onCatch_Masks(ch, error) ==
    IF ch.retries > 0
    THEN [ch EXCEPT !.pc = "awaitTimer", !.timer = ch.delay]
    ELSE [ch EXCEPT !.pc = "rejected", !.outcome = "Retries exhausted."]

\* catch (error): with retries left, setTimeout(resolve, delay) is awaited;
\* with none, error is thrown again
onCatch(ch, error) ==
    IF ch.retries > 0
    THEN [ch EXCEPT !.pc = "awaitTimer", !.timer = ch.delay]
    ELSE [ch EXCEPT !.pc = "rejected", !.outcome = error]

\* a retry that waits as long as the one before it
onTimer_NoBackoff(ch) == withRetry(ch.retries - 1, ch.delay)

\* a timer whose firing does not resume the chain
onTimer_Lost(ch) == ch

\* the timer fires: return withRetry(fn, retries - 1, delay * 2)
onTimer(ch) == withRetry(ch.retries - 1, ch.delay * 2)

-----------------------------------------------------------------------------
(* Domain operations: geminiService *)

\* JavaScript strings that are put together from parts are sequences of
\* their parts; a location is the sequence of its characters
Whitespace == {" ", "\t"}

\* String.prototype.toLowerCase, character by character
toLowerCase(str) ==
    [i \in 1..Len(str) |->
        CASE str[i] = "N" -> "n"
          [] str[i] = "D" -> "d"
          [] OTHER -> str[i]]

\* replace that knows the space as its only whitespace
replaceWhitespace_SpacesOnly(str) ==
    [i \in 1..Len(str) |-> IF str[i] = " " THEN "_" ELSE str[i]]

\* a key that is the normalised location alone
coordsKey_NoPrefix(location) ==
    [i \in 1..Len(location) |->
        IF toLowerCase(location)[i] \in Whitespace THEN "_"
        ELSE toLowerCase(location)[i]]

\* String.prototype.replace(/\s/g, '_')
replaceWhitespace(str) ==
    [i \in 1..Len(str) |-> IF str[i] \in Whitespace THEN "_" ELSE str[i]]

\* `coords_${location.toLowerCase().replace(/\s/g, '_')}`
coordsKey(location) == <<"coords_">> \o replaceWhitespace(toLowerCase(location))

\* getKeys.horoscope: `horo_${sign}_${timeframe}_${lang}`
horoscopeKey(sign, timeframe, lang) == <<"horo_", sign, "_", timeframe, "_", lang>>

\* 'pref_sign', character by character
PREF_SIGN == <<"p", "r", "e", "f", "_", "s", "i", "g", "n">>

\* localStorage.setItem(CACHE_PREFIX + 'pref_sign', sign): the raw string
setUserSign(st, sign) == setItem(st, StorageKey(PREF_SIGN), <<S(sign)>>)

\* localStorage.getItem(CACHE_PREFIX + 'pref_sign'): the string, or null
getUserSign(st) ==
    IF StorageKey(PREF_SIGN) \in DOMAIN st /\ Len(st[StorageKey(PREF_SIGN)]) = 1
    THEN st[StorageKey(PREF_SIGN)][1].tok ELSE "null"

\* the exported operations that call the model
DomainOps ==
    {"getCoordinates", "getHoroscope", "getKundaliAnalysis", "askKundaliQuestion",
     "askNumerologyQuestion", "getMatchmaking", "getNumerologyAnalysis",
     "getPalmistryAnalysis"}

\* the operations whose body calls StorageService.get and StorageService.save
usesCache(op) == op \in {"getCoordinates", "getHoroscope"}

\* the cache key an operation derives from its arguments
cacheKey(op, args) ==
    CASE op = "getCoordinates" -> coordsKey(args)
      [] op = "getHoroscope" -> horoscopeKey(args[1], args[2], args[3])
      [] OTHER -> <<>>

\* the two revisions of geminiService: withRetry(fn, 2, 2000) and
\* withRetry(fn, 3, 1000)
Revisions == {"first", "second"}

Timeframes == {"daily", "weekly", "monthly"}

\* a horoscope whose weekly and monthly hours have changed places
horoscopeTtl_Swapped(rev, timeframe) ==
    IF timeframe = "daily" THEN 12
    ELSE IF rev = "first" THEN 168
    ELSE IF timeframe = "weekly" THEN 168 ELSE 48

\* getHoroscope: timeframe === 'daily' ? 12 : 168 in the first revision,
\* timeframe === 'daily' ? 12 : (timeframe === 'weekly' ? 48 : 168) in the second
horoscopeTtl(rev, timeframe) ==
    IF timeframe = "daily" THEN 12
    ELSE IF rev = "first" THEN 168
    ELSE IF timeframe = "weekly" THEN 48 ELSE 168

\* getCoordinates: StorageService.save(cacheKey, result, 720)
coordsTtl(rev) == 720

\* the kinds of content the operations cache
Contents == Timeframes \cup {"location"}

\* the ttlHours a revision hands to save for a kind of content
domainTtl(rev, content) ==
    IF content = "location" THEN coordsTtl(rev) ELSE horoscopeTtl(rev, content)

\* the ttlHours argument an operation hands to save
ttlFor(op, args) ==
    CASE op = "getCoordinates" -> coordsTtl("first")
      [] op = "getHoroscope" -> horoscopeTtl("first", args[2])
      [] OTHER -> 0

\* values JavaScript takes for false in a condition
Falsy == {"null", "undefined", "false", "0", ""}

\* a lookup that takes no cached value for a hit
cacheHit_Never(cached) == FALSE

\* if (cached) return cached
cacheHit(cached) == cached \notin Falsy

-----------------------------------------------------------------------------
(* HoroscopeView *)

\* useState: the first sign, 'daily', no prediction, not loading; language
\* is a prop; no fetch made yet
HoroscopeViewInit ==
    [mounted |-> FALSE, selected |-> <<"Aries", "daily", "English">>,
     loading |-> FALSE, error |-> "null", prediction |-> <<>>,
     inflight |-> {}, started |-> 0]

\* fetchHoroscope up to its await: setLoading(true); setError(null); the
\* call of getHoroscope with the selection of this render
fetchHoroscope(h, selection) ==
    [h EXCEPT !.loading = TRUE, !.error = "null", !.started = @ + 1,
              !.inflight = @ \cup {[n |-> h.started + 1, for |-> selection]}]

\* finally { setLoading(false) }
onSettled(h, fetch) ==
    [h EXCEPT !.loading = FALSE, !.inflight = @ \ {fetch}]

\* const data = await getHoroscope(...); setPrediction(data): the data is
\* the horoscope of the selection the fetch was made for
onData(h, fetch) == [h EXCEPT !.prediction = fetch.for]

\* catch (err): setError(err.message || ...)
onError(h, fetch) == [h EXCEPT !.error = "NetworkError"]

\* what the view shows: {prediction && !loading && !error && ...}
Displayed(h) == h.prediction # <<>> /\ ~h.loading /\ h.error = "null"

-----------------------------------------------------------------------------
(* KundaliView *)

\* the two revisions of the component
KundaliRevisions == {"part_009", "part_010"}

\* the catch's message of each revision
Apology ==
    [part_009 |-> "The heavens are clouded. Please try again later.",
     part_010 |-> "The astral connection was interrupted."]

\* useState: no analysis, an empty chat, nothing loading
KundaliViewInit(rev) ==
    [revision |-> rev, analysis |-> "null", loading |-> FALSE,
     chatHistory |-> <<>>, chatLoading |-> FALSE, submitting |-> FALSE,
     pending |-> {}, asked |-> 0, charts |-> 0]

\* handleSubmit up to its first await: setLoading(true); setChatHistory([])
handleSubmit(k) ==
    [k EXCEPT !.loading = TRUE, !.chatHistory = <<>>, !.submitting = TRUE,
              !.charts = @ + 1]

\* handleAskQuestion up to its await, past the guard: the question is
\* appended as a user message and setChatLoading(true)
handleAskQuestion(k) ==
    [k EXCEPT !.chatHistory = Append(@, [role |-> "user", q |-> k.asked + 1, text |-> "question"]),
              !.chatLoading = TRUE,
              !.pending = @ \cup {k.asked + 1},
              !.asked = @ + 1]

\* askKundaliQuestion settles: its response, or in the catch the apology,
\* is appended as a model message; finally setChatLoading(false)
onAnswer(k, q, text) ==
    [k EXCEPT !.chatHistory = Append(@, [role |-> "model", q |-> q, text |-> text]),
              !.chatLoading = FALSE,
              !.pending = @ \ {q}]

\* Generate Different Chart: setAnalysis(null), and in part_009 also
\* setChatHistory([])
resetChart(k) ==
    [k EXCEPT !.analysis = "null",
              !.chatHistory = IF k.revision = "part_009" THEN <<>> ELSE @]

-----------------------------------------------------------------------------
(* NumerologyView *)

\* the decimal digits as characters, Digits[d + 1] being the digit d
Digits == <<"0", "1", "2", "3", "4", "5", "6", "7", "8", "9">>

IsDigit(c) == \E i \in 1..Len(Digits) : Digits[i] = c

\* parseInt of one digit character
digitValue(c) == (CHOOSE i \in 1..Len(Digits) : Digits[i] = c) - 1

RECURSIVE parseIntFrom(_, _)
parseIntFrom(str, acc) ==
    IF str = <<>> \/ ~IsDigit(Head(str)) THEN acc
    ELSE parseIntFrom(Tail(str), 10 * acc + digitValue(Head(str)))

\* parseInt(str) of a text that begins with a digit: the value of its
\* leading digits, leading zeros dropped
parseInt(str) == parseIntFrom(str, 0)

\* num.toString() of a non-negative integer
RECURSIVE toString(_)
toString(num) ==
    IF num < 10 THEN <<Digits[num + 1]>>
    ELSE toString(num \div 10) \o <<Digits[(num % 10) + 1]>>

\* str.split('-')
RECURSIVE split(_)
split(str) ==
    IF \A i \in 1..Len(str) : str[i] # "-" THEN <<str>>
    ELSE LET at == CHOOSE i \in 1..Len(str) :
                       str[i] = "-" /\ \A j \in 1..(i - 1) : str[j] # "-"
         IN  <<SubSeq(str, 1, at - 1)>> \o split(SubSeq(str, at + 1, Len(str)))

\* str.replace(/-/g, '')
IsNotHyphen(c) == c # "-"

removeHyphens(str) == SelectSeq(str, IsNotHyphen)

\* chars.reduce((acc, digit) => acc + parseInt(digit), 0)
RECURSIVE reduceSum(_)
reduceSum(chars) ==
    IF chars = <<>> THEN 0
    ELSE reduceSum(SubSeq(chars, 1, Len(chars) - 1))
             + parseInt(<<chars[Len(chars)]>>)

sumDigits_Once(num) == reduceSum(toString(num))

\* sumDigits: the sum of the decimal digits, summed again while above 9
RECURSIVE sumDigits(_)
sumDigits(num) ==
    LET sum == reduceSum(toString(num))
    IN  IF sum > 9 THEN sumDigits(sum) ELSE sum

gridLayout == <<<<4, 9, 2>>, <<3, 5, 7>>, <<8, 1, 6>>>>

calculateNumerology(dateStr) ==
    IF dateStr = <<>> THEN "null"
    ELSE LET parts == split(dateStr)
             day == parts[3]
             mulank == sumDigits(parseInt(day))
             fullSum == reduceSum(removeHyphens(dateStr))
             bhagyank == sumDigits(fullSum)
             chars == removeHyphens(dateStr)
             digits == {digitValue(chars[i]) : i \in 1..Len(chars)}
             \* a cell holds its number, or nothing where the code has null
             loshu == [r \in 1..3 |-> [c \in 1..3 |->
                          IF gridLayout[r][c] \in digits
                          THEN <<gridLayout[r][c]>> ELSE <<>>]]
         IN  [mulank |-> mulank, bhagyank |-> bhagyank, loshu |-> loshu]

\* the years, months and days a date of birth is drawn from
Years == {1, 1999, 2000, 9999}

IsLeap(y) == (y % 4 = 0 /\ y % 100 # 0) \/ y % 400 = 0

DaysIn(y, m) ==
    IF m = 2 THEN (IF IsLeap(y) THEN 29 ELSE 28)
    ELSE IF m \in {4, 6, 9, 11} THEN 30 ELSE 31

ValidDates ==
    {d \in Years \X (1..12) \X (1..31) : d[3] <= DaysIn(d[1], d[2])}

\* a number as a text of the given width, zeros to the left
RECURSIVE padded(_, _)
padded(num, width) ==
    IF width = 0 THEN <<>>
    ELSE padded(num \div 10, width - 1) \o <<Digits[(num % 10) + 1]>>

\* the value of <input type="date"> for a date: YYYY-MM-DD
dateValue(d) ==
    padded(d[1], 4) \o <<"-">> \o padded(d[2], 2) \o <<"-">> \o padded(d[3], 2)

\* setDob(value) and the effect on dob: setNumerologyData(calculateNumerology(dob))
onChangeDob(value, d) ==
    [dob |-> value, numerologyData |-> calculateNumerology(value), entered |-> d]

\* the states of the view after a date is picked
afterChange == {onChangeDob(dateValue(d), d) : d \in ValidDates}

\* useState(''), useState(null)
NumerologyViewInit == [dob |-> <<>>, numerologyData |-> "null", entered |-> <<>>]

-----------------------------------------------------------------------------
(* State *)

NoSave == [by |-> "none", data |-> "", at |-> 0, ttl |-> 0, over |-> FALSE]

NoCall == [op |-> "none", key |-> "", ret |-> "", threw |-> FALSE, found |-> ""]

\* what a get on key meets in the store: no item, an item whose decoding
\* raises, an item lacking the entry's properties, an expired or a live entry
Found(st, at, key) ==
    LET sk == StorageKey(key)
    IN IF sk \notin DOMAIN st THEN "nothing"
       ELSE IF st[sk] = <<>> THEN "empty"
       ELSE LET parsed == JSONparse(st[sk])
            IN IF parsed.kind # "object" THEN "undecodable"
               ELSE IF ~(IsNumber(parsed, "timestamp") /\ IsNumber(parsed, "expiry"))
                    THEN "shapeless"
               ELSE IF at - parsed.props["timestamp"].num > parsed.props["expiry"].num
                       /\ parsed.props["expiry"].num # INFINITE_TTL
                    THEN "expired"
               ELSE "live"

NoHist == [maxAttempts |-> 0, initialDelay |-> 0, invocations |-> 0,
           errors |-> <<>>, delays |-> <<>>, value |-> ""]

NoWrite == [written |-> FALSE, data |-> "", at |-> 0, ttl |-> 0]

NoRequest ==
    [pc |-> "idle", op |-> "", args |-> <<>>, key |-> <<>>, ch |-> Idle,
     lookup |-> "none", cached |-> "", removed |-> FALSE, invocations |-> 0,
     failures |-> 0, decodeAt |-> 0, saved |-> NoWrite, result |-> ""]

\* the calls the callers make: the horoscope of the preferred sign, the
\* coordinates of a location, and the operations that take no part in caching
Calls ==
    {[op |-> "getHoroscope", args |-> <<"Aries", "daily", "English">>]}
    \cup {[op |-> "getCoordinates", args |-> l] : l \in Locations}
    \cup {[op |-> o, args |-> <<>>] : o \in {d \in DomainOps : ~usesCache(d)}}

\* a location that reads pref sign, and the signs of the selector
PrefLocation == <<"p", "r", "e", "f", " ", "s", "i", "g", "n">>

Signs == {"Aries", "Taurus"}

\* syncData asks for the daily horoscope of getUserSign() || ZODIAC_SIGNS[0].name;
\* a view asks for the coordinates of the location typed in
PrefCallsOf(r, st) ==
    IF r = "syncData"
    THEN {[op |-> "getHoroscope",
           args |-> <<IF getUserSign(st) = "null" THEN "Aries" ELSE getUserSign(st),
                      "daily", "English">>]}
    ELSE {[op |-> "getCoordinates", args |-> PrefLocation]}

\* syncData calls getHoroscope only; a view calls the operation of its tab
CallsOf(r) ==
    IF r = "syncData" THEN {c \in Calls : c.op = "getHoroscope"} ELSE Calls

\* texts that something other than save left in a record
TruncatedEntry ==
    SubSeq(JSONstringify([data |-> "resultA", timestamp |-> 0, expiry |-> UnitsPerHour]), 1, 6)

SentinelEntry ==
    <<S("{"), S("data"), S("resultB"), S("timestamp"), N(0), S("expiry"), N(INFINITE_TTL), S("}")>>

ForeignTexts ==
    { <<S("null")>>, <<S("{"), S("}")>>, <<>>, TruncatedEntry, SentinelEntry }

Init ==
    /\ localStorage = << >>
    /\ now = 0
    /\ ticks = 0
    /\ writes = 0
    /\ lastCall = NoCall
    /\ lastSave = [k \in Keys |-> NoSave]
    /\ chain = [c \in Chains |-> Idle]
    /\ hist = [c \in Chains |-> NoHist]
    /\ req = [r \in Requests |-> NoRequest]
    /\ ttls = [rc \in Revisions \X Contents |-> 0]
    /\ horo = HoroscopeViewInit
    /\ kundali = KundaliViewInit("unmounted")
    /\ numerology = NumerologyViewInit

\* a caller runs StorageService.save(key, data, ttlHours)
Save ==
    \E key \in Keys, data \in Values, ttlHours \in TtlHours, failWrite \in BOOLEAN :
        LET out == save(localStorage, now, key, data, ttlHours, failWrite)
        IN /\ writes < MaxWrites
           /\ writes' = IF out.threw THEN writes ELSE writes + 1
           /\ localStorage' = out.store
           /\ lastCall' = [op |-> "save", key |-> key, ret |-> out.ret, threw |-> out.threw,
                           found |-> ""]
           /\ lastSave' = IF out.threw THEN lastSave
                          ELSE [lastSave EXCEPT ![key] =
                                  [by |-> "save", data |-> data, at |-> now, ttl |-> ttlHours,
                                   over |-> /\ lastSave[key].by = "save"
                                            /\ lastSave[key].data # data
                                            /\ StorageKey(key) \in DOMAIN localStorage]]
           /\ UNCHANGED <<now, ticks>>
           /\ UNCHANGED retryVars
           /\ UNCHANGED localVars
           /\ UNCHANGED requestVars

\* a caller runs StorageService.get(key)
Get ==
    \E key \in Keys, failRead \in BOOLEAN :
        LET out == get(localStorage, now, key, failRead)
        IN /\ localStorage' = out.store
           /\ lastCall' = [op |-> "get", key |-> key, ret |-> out.ret, threw |-> out.threw,
                           found |-> IF failRead THEN "" ELSE Found(localStorage, now, key)]
           /\ UNCHANGED <<now, ticks, writes, lastSave>>
           /\ UNCHANGED retryVars
           /\ UNCHANGED localVars
           /\ UNCHANGED requestVars

\* the clock advances
Tick ==
    \E d \in TickSteps :
        /\ ticks < MaxTicks
        /\ ticks' = ticks + 1
        /\ now' = now + d
        /\ lastCall' = NoCall
        /\ UNCHANGED <<localStorage, writes, lastSave>>
        /\ UNCHANGED retryVars
        /\ UNCHANGED localVars
        /\ UNCHANGED requestVars

\* something other than StorageService.save writes a record (a user editing
\* the store, another script of the origin)
ExternalWrite ==
    \E key \in Keys, text \in ForeignTexts :
        /\ writes < MaxWrites
        /\ writes' = writes + 1
        /\ localStorage' = setItem(localStorage, StorageKey(key), text)
        /\ lastSave' = [lastSave EXCEPT ![key] =
                          [by |-> "external", data |-> "", at |-> 0, ttl |-> 0, over |-> FALSE]]
        /\ lastCall' = NoCall
        /\ UNCHANGED <<now, ticks>>
        /\ UNCHANGED retryVars
        /\ UNCHANGED localVars
        /\ UNCHANGED requestVars

\* the storage is cleared externally
ExternalClear ==
    /\ localStorage # << >>
    /\ localStorage' = << >>
    /\ lastSave' = [k \in Keys |-> IF lastSave[k].by = "none" THEN NoSave
                                   ELSE [by |-> "cleared", data |-> "", at |-> 0, ttl |-> 0, over |-> FALSE]]
    /\ lastCall' = NoCall
    /\ UNCHANGED <<now, ticks, writes>>
    /\ UNCHANGED retryVars
    /\ UNCHANGED localVars
    /\ UNCHANGED requestVars

\* a caller starts withRetry(fn, retries, delay); fn is invoked
Start(c) ==
    \E retries \in 0..MaxRetries, delay \in Delays :
        /\ chain[c].pc = "idle"
        /\ chain' = [chain EXCEPT ![c] = withRetry(retries, delay)]
        /\ hist' = [hist EXCEPT ![c] = [NoHist EXCEPT !.maxAttempts = retries,
                                                       !.initialDelay = delay,
                                                       !.invocations = 1]]
        /\ UNCHANGED storageVars
        /\ UNCHANGED localVars
        /\ UNCHANGED requestVars

\* the awaited call of fn succeeds
FnResolves(c) ==
    \E value \in Values :
        /\ chain[c].pc = "awaitFn"
        /\ chain' = [chain EXCEPT ![c] = onFulfilled(chain[c], value)]
        /\ hist' = [hist EXCEPT ![c].value = value]
        /\ UNCHANGED storageVars
        /\ UNCHANGED localVars
        /\ UNCHANGED requestVars

\* the awaited call of fn fails
FnRejects(c) ==
    \E error \in Errors :
        LET ch == onCatch(chain[c], error)
        IN /\ chain[c].pc = "awaitFn"
           /\ chain' = [chain EXCEPT ![c] = ch]
           /\ hist' = [hist EXCEPT ![c].errors = Append(@, error),
                                   ![c].delays = IF ch.pc = "awaitTimer"
                                                 THEN Append(@, ch.timer) ELSE @,
                                   ![c].invocations = IF ch.pc = "awaitFn" THEN @ + 1 ELSE @]
           /\ UNCHANGED storageVars
           /\ UNCHANGED localVars
           /\ UNCHANGED requestVars

\* the backoff timer of the chain fires; fn is invoked again
TimerFires(c) ==
    LET ch == onTimer(chain[c])
    IN /\ chain[c].pc = "awaitTimer"
       /\ chain' = [chain EXCEPT ![c] = ch]
       /\ hist' = [hist EXCEPT ![c].invocations = IF ch.pc = "awaitFn" THEN @ + 1 ELSE @]
       /\ UNCHANGED storageVars
       /\ UNCHANGED localVars
       /\ UNCHANGED requestVars

\* a caller calls a domain operation: the cache lookup, and on a miss the
\* call of withRetry, which invokes the wrapped operation
CallFrom(r, calls) ==
    \E call \in calls :
        LET key == cacheKey(call.op, call.args)
            got == IF usesCache(call.op)
                   THEN get(localStorage, now, key, FALSE)
                   ELSE Outcome("undefined", FALSE, localStorage)
            hit == usesCache(call.op) /\ cacheHit(got.ret)
            looked == [NoRequest EXCEPT
                         !.op = call.op, !.args = call.args, !.key = key,
                         !.lookup = IF usesCache(call.op)
                                    THEN Found(localStorage, now, key) ELSE "none",
                         !.cached = IF usesCache(call.op) THEN got.ret ELSE "",
                         !.removed = (got.store # localStorage)]
        IN /\ req[r].pc = "idle"
           /\ localStorage' = got.store
           /\ req' = [req EXCEPT ![r] =
                        IF hit
                        THEN [looked EXCEPT !.pc = "returned", !.result = got.ret]
                        ELSE [looked EXCEPT !.pc = "awaitFn",
                                            !.ch = withRetry(DEFAULT_RETRIES, DEFAULT_DELAY),
                                            !.invocations = 1]]
           /\ UNCHANGED <<now, ticks, writes, lastCall, lastSave>>
           /\ UNCHANGED retryVars
           /\ UNCHANGED localVars

\* a caller makes one of its calls
Call(r) == CallFrom(r, CallsOf(r))

\* a caller of either kind calls one of the caching operations: the forms
\* of the views ask for the coordinates of two locations at once, beside
\* the horoscope calls
CachingCall(r) == CallFrom(r, {c \in Calls : usesCache(c.op)})

\* a caller makes its call while the preferred sign is kept beside the cache
PrefCall(r) == CallFrom(r, PrefCallsOf(r, localStorage))

\* HoroscopeView's setAsPreferred: StorageService.setUserSign(selectedSign)
SetUserSign ==
    \E sign \in Signs :
        /\ getUserSign(localStorage) # sign
        /\ localStorage' = setUserSign(localStorage, sign)
        /\ UNCHANGED <<now, ticks, writes, lastCall, lastSave>>
        /\ UNCHANGED retryVars
        /\ UNCHANGED localVars
        /\ UNCHANGED requestVars

\* an operation that writes the error into the cache when withRetry throws
afterRetry_SavesOnFailure(q, ch, st, at) ==
    IF ch.pc \in {"resolved", "rejected"}
    THEN [store |-> IF usesCache(q.op)
                    THEN save(st, at, q.key, ch.outcome, ttlFor(q.op, q.args), FALSE).store
                    ELSE st,
          req |-> [q EXCEPT !.pc = IF ch.pc = "resolved" THEN "returned" ELSE "threw",
                            !.ch = ch, !.result = ch.outcome]]
    ELSE [store |-> st, req |-> [q EXCEPT !.pc = ch.pc, !.ch = ch]]

\* the operation after `await withRetry(...)`: when withRetry returned, the
\* caching operations save the result, and the result is returned; when it
\* threw, the error leaves the operation; otherwise the operation waits on
afterRetry(q, ch, st, at) ==
    CASE ch.pc = "resolved" ->
           [store |-> IF usesCache(q.op)
                      THEN save(st, at, q.key, ch.outcome, ttlFor(q.op, q.args), FALSE).store
                      ELSE st,
            req |-> [q EXCEPT !.pc = "returned", !.ch = ch, !.result = ch.outcome,
                              !.saved = IF usesCache(q.op)
                                        THEN [written |-> TRUE, data |-> ch.outcome, at |-> at,
                                              ttl |-> ttlFor(q.op, q.args) * UnitsPerHour]
                                        ELSE NoWrite]]
      [] ch.pc = "rejected" ->
           [store |-> st,
            req |-> [q EXCEPT !.pc = "threw", !.ch = ch, !.result = ch.outcome]]
      [] OTHER ->
           [store |-> st, req |-> [q EXCEPT !.pc = ch.pc, !.ch = ch]]

\* the model answers and the answer decodes: withRetry returns it, the
\* operation saves it when it caches, and returns it
RemoteFulfils(r) ==
    \E value \in RemoteResults :
        LET after == afterRetry(req[r], onFulfilled(req[r].ch, value), localStorage, now)
        IN /\ req[r].pc = "awaitFn"
           /\ localStorage' = after.store
           /\ req' = [req EXCEPT ![r] = after.req]
           /\ UNCHANGED <<now, ticks, writes, lastCall, lastSave>>
           /\ UNCHANGED retryVars
           /\ UNCHANGED localVars

\* the wrapped operation throws: withRetry starts its timer, or with no
\* retries left throws the error on, and the operation lets it through
RemoteRejects(r) ==
    \E error \in RemoteErrors :
        LET q == [req[r] EXCEPT !.failures = @ + 1,
                                !.decodeAt = IF error = "Decoding failed." /\ @ = 0
                                             THEN req[r].invocations ELSE @]
            after == afterRetry(q, onCatch(req[r].ch, error), localStorage, now)
        IN /\ req[r].pc = "awaitFn"
           /\ localStorage' = after.store
           /\ req' = [req EXCEPT ![r] = after.req]
           /\ UNCHANGED <<now, ticks, writes, lastCall, lastSave>>
           /\ UNCHANGED retryVars
           /\ UNCHANGED localVars

\* the backoff timer of a request fires: the wrapped operation is invoked again
BackoffElapses(r) ==
    LET q == [req[r] EXCEPT !.invocations = @ + 1]
        after == afterRetry(q, onTimer(req[r].ch), localStorage, now)
    IN /\ req[r].pc = "awaitTimer"
       /\ localStorage' = after.store
       /\ req' = [req EXCEPT ![r] = after.req]
       /\ UNCHANGED <<now, ticks, writes, lastCall, lastSave>>
       /\ UNCHANGED retryVars
       /\ UNCHANGED localVars

\* time passes between the steps of the requests
Elapse ==
    \E step \in ElapseSteps :
        /\ ticks < MaxTicks
        /\ now' = now + step
        /\ ticks' = ticks + 1
        /\ UNCHANGED <<localStorage, writes, lastCall, lastSave>>
        /\ UNCHANGED retryVars
        /\ UNCHANGED localVars
        /\ UNCHANGED requestVars

\* a revision's getHoroscope or getCoordinates reaches its save for a kind
\* of content
SavesWith(rev, content) ==
    /\ ttls[<<rev, content>>] = 0
    /\ ttls' = [ttls EXCEPT ![<<rev, content>>] = domainTtl(rev, content)]
    /\ UNCHANGED <<horo, kundali, numerology>>
    /\ UNCHANGED storageVars
    /\ UNCHANGED retryVars
    /\ UNCHANGED requestVars

\* the view is mounted: the effect runs fetchHoroscope
Mount ==
    /\ ~horo.mounted
    /\ horo' = fetchHoroscope([horo EXCEPT !.mounted = TRUE], horo.selected)
    /\ UNCHANGED <<storageVars, retryVars, requestVars, ttls, kundali, numerology>>

\* the user picks a sign or a timeframe, or the language changes: the
\* dependencies of the effect change and it runs fetchHoroscope
Select ==
    \E selection \in Selections :
        /\ horo.mounted
        /\ horo.started < MaxFetches
        /\ selection # horo.selected
        /\ horo' = fetchHoroscope([horo EXCEPT !.selected = selection], selection)
        /\ UNCHANGED <<storageVars, retryVars, requestVars, ttls, kundali, numerology>>

\* the user presses Try Again
TryAgain ==
    /\ horo.mounted
    /\ horo.started < MaxFetches
    /\ horo.error # "null" /\ ~horo.loading
    /\ horo' = fetchHoroscope(horo, horo.selected)
    /\ UNCHANGED <<storageVars, retryVars, requestVars, ttls, kundali, numerology>>

\* getHoroscope of a fetch in flight returns
FetchResolves ==
    \E fetch \in horo.inflight :
        /\ horo' = onSettled(onData(horo, fetch), fetch)
        /\ UNCHANGED <<storageVars, retryVars, requestVars, ttls, kundali, numerology>>

\* getHoroscope of a fetch in flight throws
FetchRejects ==
    \E fetch \in horo.inflight :
        /\ horo' = onSettled(onError(horo, fetch), fetch)
        /\ UNCHANGED <<storageVars, retryVars, requestVars, ttls, kundali, numerology>>

\* the component of either revision is rendered for the first time
MountKundali ==
    /\ kundali.revision = "unmounted"
    /\ \E rev \in KundaliRevisions : kundali' = KundaliViewInit(rev)
    /\ UNCHANGED <<storageVars, retryVars, requestVars, ttls, horo, numerology>>

\* the user submits the birth details: the form is shown while there is no
\* analysis, its button is disabled while loading
Submit ==
    /\ kundali.revision \in KundaliRevisions
    /\ kundali.analysis = "null" /\ ~kundali.loading
    /\ kundali.charts < MaxCharts
    /\ kundali' = handleSubmit(kundali)
    /\ UNCHANGED <<storageVars, retryVars, requestVars, ttls, horo, numerology>>

\* getCoordinates and getKundaliAnalysis return: setAnalysis(result); finally
SubmitResolves ==
    /\ kundali.submitting
    /\ kundali' = [kundali EXCEPT !.analysis = "report", !.loading = FALSE,
                                  !.submitting = FALSE]
    /\ UNCHANGED <<storageVars, retryVars, requestVars, ttls, horo, numerology>>

\* one of them throws: the catch logs; finally
SubmitRejects ==
    /\ kundali.submitting
    /\ kundali' = [kundali EXCEPT !.loading = FALSE, !.submitting = FALSE]
    /\ UNCHANGED <<storageVars, retryVars, requestVars, ttls, horo, numerology>>

\* the user sends a question: the chat is shown with the analysis, and the
\* handler returns at once without an analysis or while chatLoading
AskQuestion ==
    /\ kundali.analysis # "null" /\ ~kundali.loading
    /\ ~kundali.chatLoading
    /\ kundali.asked < MaxQuestions
    /\ kundali' = handleAskQuestion(kundali)
    /\ UNCHANGED <<storageVars, retryVars, requestVars, ttls, horo, numerology>>

\* the answer to a pending question arrives
AnswerArrives ==
    \E q \in kundali.pending :
        /\ kundali' = onAnswer(kundali, q, "response")
        /\ UNCHANGED <<storageVars, retryVars, requestVars, ttls, horo, numerology>>

\* askKundaliQuestion throws for a pending question
AnswerFails ==
    \E q \in kundali.pending :
        /\ kundali' = onAnswer(kundali, q, Apology[kundali.revision])
        /\ UNCHANGED <<storageVars, retryVars, requestVars, ttls, horo, numerology>>

\* the user presses Generate Different Chart, shown with the analysis
ResetChart ==
    /\ kundali.analysis # "null" /\ ~kundali.loading
    /\ kundali' = resetChart(kundali)
    /\ UNCHANGED <<storageVars, retryVars, requestVars, ttls, horo, numerology>>

\* the user picks a date of birth: setDob(e.target.value), and the effect
\* on dob stores calculateNumerology(dob)
ChangeDob ==
    /\ numerology' \in afterChange
    /\ UNCHANGED <<storageVars, retryVars, requestVars, ttls, horo, kundali>>

\* the user clears the date: the value of the input is the empty string
ClearDob ==
    /\ numerology.dob # <<>>
    /\ numerology' = onChangeDob(<<>>, <<>>)
    /\ UNCHANGED <<storageVars, retryVars, requestVars, ttls, horo, kundali>>

NextStorage == Save \/ Get \/ Tick \/ ExternalWrite \/ ExternalClear

NextRetry == \E c \in Chains : Start(c) \/ FnResolves(c) \/ FnRejects(c) \/ TimerFires(c)

NextRequest ==
    \/ Elapse
    \/ \E r \in Requests :
          Call(r) \/ RemoteFulfils(r) \/ RemoteRejects(r) \/ BackoffElapses(r)

NextCaching ==
    \/ Elapse
    \/ \E r \in Requests :
          CachingCall(r) \/ RemoteFulfils(r) \/ RemoteRejects(r) \/ BackoffElapses(r)

NextPrefSign ==
    \/ Elapse
    \/ SetUserSign
    \/ \E r \in Requests :
          PrefCall(r) \/ RemoteFulfils(r) \/ RemoteRejects(r) \/ BackoffElapses(r)

NextTtl == \E rev \in Revisions, content \in Contents : SavesWith(rev, content)

NextHoroscopeView == Mount \/ Select \/ TryAgain \/ FetchResolves \/ FetchRejects

NextNumerologyView == ChangeDob \/ ClearDob

NextKundaliView ==
    \/ MountKundali \/ Submit \/ SubmitResolves \/ SubmitRejects
    \/ AskQuestion \/ AnswerArrives \/ AnswerFails \/ ResetChart

Next ==
    \/ NextStorage \/ NextRetry \/ NextRequest \/ NextCaching \/ NextTtl
    \/ NextHoroscopeView \/ NextKundaliView \/ NextNumerologyView \/ NextPrefSign

\* the cache alone
SpecStorage == Init /\ [][NextStorage]_vars

\* the domain operations with the cache and the retry helper under them
SpecRequest == Init /\ [][NextRequest]_vars

\* the two caching operations, called by any two callers
SpecCaching == Init /\ [][NextCaching]_vars

\* the hours the revisions cache their results for
SpecTtl == Init /\ [][NextTtl]_vars

\* HoroscopeView and its fetches
SpecHoroscopeView == Init /\ [][NextHoroscopeView]_vars

\* KundaliView: its chart and its chat
SpecKundaliView == Init /\ [][NextKundaliView]_vars

\* NumerologyView: the date of birth and its numbers
SpecNumerologyView == Init /\ [][NextNumerologyView]_vars

\* the preferred sign beside the cache of the requests
SpecPrefSign == Init /\ [][NextPrefSign]_vars

\* the retry helper alone
SpecRetry == Init /\ [][NextRetry]_vars

\* the retry helper when every call of fn settles and every timer fires
SpecRetryFair ==
    /\ SpecRetry
    /\ \A c \in Chains : WF_vars(FnResolves(c) \/ FnRejects(c))
    /\ \A c \in Chains : WF_vars(TimerFires(c))

Spec == Init /\ [][Next]_vars

-----------------------------------------------------------------------------
(* Properties of the cache *)

\* the last call was a get on key k that returned, and the record of k was
\* last written by a save that completed
GotAfterSave(k) ==
    /\ lastCall.op = "get"
    /\ lastCall.key = k
    /\ ~lastCall.threw
    /\ lastSave[k].by = "save"

Age(k) == now - lastSave[k].at

Ttl(k) == lastSave[k].ttl * UnitsPerHour

\* C1: for ttl > 0, a get in the same instant as the save returns the saved
\* value, and a get made after more than ttl has elapsed returns null.
C1_SaveThenGet ==
    \A k \in Keys :
        (GotAfterSave(k) /\ lastSave[k].ttl > 0) =>
            /\ (Age(k) = 0 => lastCall.ret = lastSave[k].data)
            /\ (Age(k) > Ttl(k) => lastCall.ret = "null")

C1_Witness ==
    \E k \in Keys :
        /\ GotAfterSave(k)
        /\ lastSave[k].ttl > 0
        /\ Age(k) > Ttl(k)
        /\ lastCall.found = "expired"
        /\ lastCall.ret = "null"

\* C2 as stated: an entry with a finite TTL is valid exactly when its age is
\* strictly below the TTL; at an age equal to the TTL get returns null.
C2_ValidStrictlyBelowTtl ==
    \A k \in Keys :
        (GotAfterSave(k) /\ lastSave[k].ttl >= 0) =>
            /\ (Age(k) < Ttl(k) => lastCall.ret = lastSave[k].data)
            /\ (Age(k) >= Ttl(k) => lastCall.ret = "null")

\* C2 amended: an entry with a finite TTL is valid exactly when its age is at
\* most the TTL; get returns null only when the age exceeds the TTL.
C2_ValidUpToTtl ==
    \A k \in Keys :
        (GotAfterSave(k) /\ lastSave[k].ttl >= 0) =>
            /\ (Age(k) <= Ttl(k) => lastCall.ret = lastSave[k].data)
            /\ (Age(k) > Ttl(k) => lastCall.ret = "null")

C2_Witness ==
    \E k \in Keys :
        /\ GotAfterSave(k)
        /\ lastSave[k].ttl > 0
        /\ Age(k) = Ttl(k)
        /\ lastCall.ret = lastSave[k].data

\* C3: an entry saved with the infinite-TTL sentinel never expires: every
\* later get returns its value and leaves the record in the store.
C3_SentinelNeverExpires ==
    \A k \in Keys :
        (GotAfterSave(k) /\ lastSave[k].ttl = INFINITE_TTL) =>
            /\ lastCall.ret = lastSave[k].data
            /\ StorageKey(k) \in DOMAIN localStorage

\* C4: after a save on a key that already held another save's entry, the
\* record is the second save's entry whole, and get answers from the second
\* save's value, time and ttl alone.
C4_Overwrite ==
    \A k \in Keys :
        /\ (/\ lastCall.op = "save" /\ lastCall.key = k /\ ~lastCall.threw
            /\ lastSave[k].over)
           => /\ StorageKey(k) \in DOMAIN localStorage
              /\ localStorage[StorageKey(k)] =
                    JSONstringify([data |-> lastSave[k].data, timestamp |-> now,
                                   expiry |-> Ttl(k)])
        /\ (GotAfterSave(k) /\ lastSave[k].over /\ lastSave[k].ttl >= 0)
           => lastCall.ret = IF Age(k) > Ttl(k) THEN "null" ELSE lastSave[k].data

C4_Witness ==
    \E k \in Keys :
        /\ GotAfterSave(k)
        /\ lastSave[k].over
        /\ lastSave[k].at > 0
        /\ Age(k) > 0
        /\ lastCall.ret = lastSave[k].data

C6_BrokenRecordRemoved ==
    (lastCall.op = "get" /\ lastCall.found = "undecodable")
    => StorageKey(lastCall.key) \notin DOMAIN localStorage

\* C7: a get that meets an entry whose TTL has elapsed returns null and the
\* store holds no record for the key after the call.
C7_ExpiredRemoved ==
    (lastCall.op = "get" /\ lastCall.found = "expired")
    => /\ ~lastCall.threw
       /\ lastCall.ret = "null"
       /\ StorageKey(lastCall.key) \notin DOMAIN localStorage

C7_Witness ==
    /\ lastCall.op = "get"
    /\ lastCall.found = "expired"
    /\ StorageKey(lastCall.key) \notin DOMAIN localStorage
    /\ localStorage # << >>

\* C8: no call of save or get throws, also when the store fails.
C8_NeverThrows == ~lastCall.threw

-----------------------------------------------------------------------------
(* Properties of withRetry *)

Last(seq) == seq[Len(seq)]

\* C9: a chain that is rejected has invoked the operation 1 + maxAttempts
\* times, every one of them failing, and rejects with the error of the
\* operation's last failure; a chain never invokes more often than that.
C9_Exhaustion ==
    \A c \in Chains :
        /\ hist[c].invocations <= 1 + hist[c].maxAttempts
        /\ chain[c].pc = "rejected" =>
              /\ hist[c].invocations = 1 + hist[c].maxAttempts
              /\ Len(hist[c].errors) = hist[c].invocations
              /\ chain[c].outcome = Last(hist[c].errors)
        /\ (chain[c].pc = "awaitTimer") => hist[c].invocations <= hist[c].maxAttempts

C9_Witness ==
    \E c \in Chains :
        /\ chain[c].pc = "rejected"
        /\ hist[c].maxAttempts = 2
        /\ hist[c].invocations = 3

\* C10: a chain whose operation fails k times and then succeeds has invoked
\* it k + 1 times, with k <= maxAttempts, and is resolved with the value of
\* that success; with k = 0 no timer was awaited.
C10_SuccessPath ==
    \A c \in Chains :
        chain[c].pc = "resolved" =>
            /\ hist[c].invocations = Len(hist[c].errors) + 1
            /\ Len(hist[c].errors) <= hist[c].maxAttempts
            /\ chain[c].outcome = hist[c].value
            /\ Len(hist[c].delays) = Len(hist[c].errors)

C10_Witness ==
    \E c \in Chains :
        /\ chain[c].pc = "resolved"
        /\ Len(hist[c].errors) = 2
        /\ hist[c].invocations = 3
        /\ chain[c].outcome = hist[c].value

RECURSIVE Pow2(_)
Pow2(n) == IF n = 0 THEN 1 ELSE 2 * Pow2(n - 1)

RECURSIVE Sum(_)
Sum(seq) == IF seq = <<>> THEN 0 ELSE seq[1] + Sum(Tail(seq))

\* C11: the n-th timer a chain awaits is set to initialDelay * 2^(n-1); a
\* timer is awaited after every failure but the last failure of an exhausted
\* chain, and none before the first invocation; a chain that resolves after
\* two failures has waited initialDelay + 2 * initialDelay in all.
C11_BackoffDelays ==
    \A c \in Chains :
        /\ \A n \in 1..Len(hist[c].delays) :
              hist[c].delays[n] = hist[c].initialDelay * Pow2(n - 1)
        /\ chain[c].pc = "awaitFn" => Len(hist[c].delays) = hist[c].invocations - 1
        /\ chain[c].pc = "awaitTimer" =>
              /\ Len(hist[c].delays) = Len(hist[c].errors)
              /\ chain[c].timer = Last(hist[c].delays)
        /\ chain[c].pc = "resolved" => Len(hist[c].delays) = Len(hist[c].errors)
        /\ chain[c].pc = "rejected" => Len(hist[c].delays) = Len(hist[c].errors) - 1
        /\ (chain[c].pc = "resolved" /\ Len(hist[c].errors) = 2) =>
              Sum(hist[c].delays) = hist[c].initialDelay + hist[c].initialDelay * 2

C11_Witness ==
    \E c \in Chains :
        /\ chain[c].pc = "resolved"
        /\ hist[c].initialDelay = 1000
        /\ hist[c].delays = <<1000, 2000>>
        /\ Len(hist[c].errors) = 2

\* the error getSafeApiKey throws inside the wrapped operation
API_KEY_MISSING == "API_KEY missing."

\* C12: an operation that fails with the missing-credentials error is
\* invoked exactly once: the chain awaits no timer and invokes it no more.
C12_TerminalOnce ==
    \A c \in Chains :
        (hist[c].errors # <<>> /\ hist[c].errors[1] = API_KEY_MISSING) =>
            /\ hist[c].invocations = 1
            /\ hist[c].delays = <<>>
            /\ chain[c].pc = "rejected"
            /\ chain[c].outcome = API_KEY_MISSING

Settled(c) == chain[c].pc \in {"resolved", "rejected"}

\* C17: a chain that was started settles: it is resolved, or it is rejected
\* after exactly 1 + maxAttempts invocations, never after fewer; it has then
\* invoked the operation at most 1 + maxAttempts times.
C17_RunsToCompletion ==
    \A c \in Chains :
        (chain[c].pc = "awaitFn") ~>
            (/\ Settled(c)
             /\ hist[c].invocations <= 1 + hist[c].maxAttempts
             /\ chain[c].pc = "rejected" =>
                    hist[c].invocations = 1 + hist[c].maxAttempts)

C17_Witness ==
    \E c \in Chains :
        /\ Settled(c)
        /\ hist[c].maxAttempts = MaxRetries
        /\ hist[c].invocations = 1 + MaxRetries
        /\ Len(hist[c].delays) = MaxRetries

-----------------------------------------------------------------------------
(* Claims about the domain operations *)

\* the entry the store holds under a cache key, decoded
Stored(key) == JSONparse(localStorage[StorageKey(key)])

\* the store holds a decodable entry under key whose age is within its expiry
HoldsValid(key) ==
    /\ StorageKey(key) \in DOMAIN localStorage
    /\ Found(localStorage, now, key) = "live"

\* r takes the step from idle into a call of op
Calling(r, op) == req[r].pc = "idle" /\ req'[r].pc # "idle" /\ req'[r].op = op

\* r takes the step in which the answer of the model arrives and is returned
Returning(r, op) == req[r].pc = "awaitFn" /\ req'[r].pc = "returned" /\ req[r].op = op

\* C13: a call of getHoroscope or getCoordinates that finds a valid entry
\* under its key returns the entry's value; the wrapped operation is not
\* invoked and withRetry is not entered.
C13_HitSkipsRemote ==
    \A r \in Requests :
        req[r].lookup = "live" =>
            /\ req[r].pc = "returned"
            /\ req[r].result = req[r].cached
            /\ req[r].invocations = 0
            /\ req[r].ch = Idle

AriesDaily == <<"Aries", "daily", "English">>

\* C14: a call of getHoroscope(Aries, daily, English) that finds no entry
\* invokes the wrapped operation; in the step in which it returns the
\* decoded object, the store holds under its key an entry with that object,
\* the time of the step and an expiry of at most 24 hours; and a call made
\* while the store holds such an entry within its expiry returns the
\* entry's object, invokes nothing and leaves the store as it is.
C14_MissStoresThenHits ==
    [][\A r \in Requests :
          LET key == horoscopeKey("Aries", "daily", "English")
          IN /\ (Calling(r, "getHoroscope") /\ StorageKey(key) \notin DOMAIN localStorage) =>
                    /\ req'[r].pc = "awaitFn"
                    /\ req'[r].invocations = 1
             /\ (Returning(r, "getHoroscope") /\ req'[r].result \notin Falsy) =>
                    /\ HoldsValid(key)'
                    /\ entryData(Stored(key)') = req'[r].result
                    /\ Stored(key)'.props["timestamp"] = N(now)
                    /\ Stored(key)'.props["expiry"].num <= 24 * UnitsPerHour
                    /\ Stored(key)'.props["expiry"].num > 0
             /\ (Calling(r, "getHoroscope") /\ HoldsValid(key)
                    /\ entryData(Stored(key)) \notin Falsy) =>
                    /\ req'[r].pc = "returned"
                    /\ req'[r].result = entryData(Stored(key))
                    /\ req'[r].invocations = 0
                    /\ localStorage' = localStorage
      ]_vars

C14_Witness ==
    /\ req["syncData"].pc = "returned"
    /\ req["syncData"].args = AriesDaily
    /\ req["syncData"].invocations = 1
    /\ req["syncData"].saved.written
    /\ req["syncData"].result = "resultA"
    /\ req["view"].pc = "returned"
    /\ req["view"].args = AriesDaily
    /\ req["view"].lookup = "live"
    /\ req["view"].invocations = 0
    /\ req["view"].result = "resultA"
    /\ now > req["syncData"].saved.at

\* C15 as the claim states it: a call of getHoroscope or getCoordinates
\* whose remote operation ultimately failed throws, and has left the cache
\* as it was: it has written no entry and removed none.
C15_CacheUntouched ==
    \A r \in Requests :
        (req[r].pc = "threw" /\ usesCache(req[r].op)) =>
            /\ ~req[r].saved.written
            /\ ~req[r].removed

\* C15, amended: when the last invocation a chain allows fails, the call
\* throws the error of that failure; no step of a call that is waiting for
\* the model or failing writes to the store, and the one change the lookup
\* of a call makes is the removal of an expired entry under its own key.
C15_NothingCached ==
    [][\A r \in Requests :
          /\ (req[r].pc = "idle" /\ req'[r].pc # "idle") =>
                 \/ localStorage' = localStorage
                 \/ /\ Found(localStorage, now, req'[r].key) = "expired"
                    /\ localStorage' = removeItem(localStorage, StorageKey(req'[r].key))
          /\ (req[r].pc \in {"awaitFn", "awaitTimer"} /\ req'[r] # req[r]
                 /\ req'[r].pc # "returned") =>
                 localStorage' = localStorage
          /\ (req[r].pc = "awaitFn" /\ req'[r].failures = req[r].failures + 1
                 /\ req[r].invocations = 1 + DEFAULT_RETRIES) =>
                 /\ req'[r].pc = "threw"
                 /\ req'[r].result \in RemoteErrors
                 /\ ~req'[r].saved.written
      ]_vars

C15_Witness ==
    \E r \in Requests :
        /\ req[r].pc = "threw"
        /\ req[r].op = "getHoroscope"
        /\ req[r].lookup = "expired"
        /\ req[r].removed
        /\ req[r].failures = 1 + DEFAULT_RETRIES
        /\ StorageKey(req[r].key) \notin DOMAIN localStorage

\* the text of the entry a call wrote
WrittenBy(q) ==
    JSONstringify([data |-> q.saved.data, timestamp |-> q.saved.at, expiry |-> q.saved.ttl])

\* two calls with the same cache key that both found no entry: they were in
\* flight together, or the first had failed before the second began
BothMissed(r1, r2) ==
    /\ r1 # r2
    /\ usesCache(req[r1].op)
    /\ req[r1].key = req[r2].key
    /\ req[r1].lookup = "nothing"
    /\ req[r2].lookup = "nothing"

\* C16: when two calls with the same key have both missed and both are
\* over, each has invoked the model itself; the store holds under the key
\* exactly the entry one of them wrote (its value, its time, its expiry),
\* or none when both failed; and a call that threw has seen all of its own
\* invocations fail.
C16_DoubleWorkHarmless ==
    \A r1, r2 \in Requests :
        (BothMissed(r1, r2) /\ req[r1].pc \in {"returned", "threw"}
            /\ req[r2].pc \in {"returned", "threw"}) =>
            LET sk == StorageKey(req[r1].key)
                writers == {r \in {r1, r2} : req[r].saved.written}
            IN /\ req[r1].invocations >= 1
               /\ writers = {} => sk \notin DOMAIN localStorage
               /\ writers # {} =>
                     /\ sk \in DOMAIN localStorage
                     /\ \E r \in writers : localStorage[sk] = WrittenBy(req[r])
               /\ req[r1].pc = "returned" =>
                     /\ req[r1].saved.written
                     /\ req[r1].result = req[r1].saved.data
               /\ req[r1].pc = "threw" =>
                     /\ req[r1].failures = 1 + DEFAULT_RETRIES
                     /\ req[r1].failures = req[r1].invocations
                     /\ req[r1].result \in RemoteErrors

C16_Witness ==
    /\ BothMissed("syncData", "view")
    /\ req["syncData"].pc = "returned"
    /\ req["view"].pc = "returned"
    /\ req["syncData"].saved.data = "resultA"
    /\ req["view"].saved.data = "resultB"
    /\ req["view"].saved.at > req["syncData"].saved.at
    /\ localStorage[StorageKey(req["view"].key)] = WrittenBy(req["view"])

\* C18: every domain operation that has invoked the model looked its key
\* up in the cache first, and one that returned the model's answer has
\* stored it.
C18_EveryOperationCached ==
    \A r \in Requests :
        /\ req[r].invocations >= 1 => req[r].lookup # "none"
        /\ (req[r].pc = "returned" /\ req[r].invocations >= 1) => req[r].saved.written

\* C19: a call of getHoroscope or getCoordinates whose answer could not be
\* decoded throws that failure: the invocation with the undecodable answer
\* is its last one, and nothing is written to the cache.
C19_DecodeFailureTerminal ==
    \A r \in Requests :
        (usesCache(req[r].op) /\ req[r].decodeAt > 0) =>
            /\ req[r].pc = "threw"
            /\ req[r].result = "Decoding failed."
            /\ req[r].invocations = req[r].decodeAt
            /\ ~req[r].saved.written

\* the same letter in either case
SameLetter(a, b) == \E pair \in {{"N", "n"}, {"D", "d"}} : a \in pair /\ b \in pair

\* locations that differ at most in letter case and in which whitespace
\* character stands between the words
SameLocation(l1, l2) ==
    /\ Len(l1) = Len(l2)
    /\ \A i \in 1..Len(l1) :
          \/ l1[i] = l2[i]
          \/ SameLetter(l1[i], l2[i])
          \/ (l1[i] \in Whitespace /\ l2[i] \in Whitespace)

\* calls with the same semantic parameters
SameParameters(q1, q2) ==
    /\ q1.op = q2.op
    /\ \/ q1.op = "getHoroscope" /\ q1.args = q2.args
       \/ q1.op = "getCoordinates" /\ SameLocation(q1.args, q2.args)

\* C20: two calls with the same semantic parameters use the same cache
\* key, whenever each was made, whatever the cache held then and whichever
\* came first; so the second finds what the first has stored.
C20_SameParametersSameKey ==
    \A r1, r2 \in Requests :
        (req[r1].pc # "idle" /\ req[r2].pc # "idle" /\ SameParameters(req[r1], req[r2])) =>
            /\ req[r1].key = req[r2].key
            /\ req[r1].key = cacheKey(req[r2].op, req[r2].args)

C20_Witness ==
    /\ req["syncData"].op = "getCoordinates"
    /\ req["view"].op = "getCoordinates"
    /\ req["syncData"].args = <<"N", " ", "D">>
    /\ req["view"].args = <<"n", "\t", "d">>
    /\ req["syncData"].pc = "returned"
    /\ req["syncData"].saved.written
    /\ req["view"].lookup = "live"
    /\ req["view"].result = req["syncData"].result
    /\ now > req["syncData"].saved.at

-----------------------------------------------------------------------------
(* Claims about the hours of caching *)

\* kinds of content, the more volatile first
Volatility == <<"daily", "weekly", "monthly", "location">>

\* C21: in each revision, of two kinds of content that have been saved the
\* more volatile one was given no more hours than the other, and the daily
\* horoscope fewer than the coordinates.
C21_TtlMonotone ==
    \A rev \in Revisions :
        \A i, j \in 1..Len(Volatility) :
            LET ti == ttls[<<rev, Volatility[i]>>]
                tj == ttls[<<rev, Volatility[j]>>]
            IN (i < j /\ ti # 0 /\ tj # 0) =>
                  /\ ti <= tj
                  /\ (i = 1 /\ j = Len(Volatility)) => ti < tj

C21_Witness ==
    /\ ttls[<<"second", "daily">>] = 12
    /\ ttls[<<"second", "weekly">>] = 48
    /\ ttls[<<"second", "monthly">>] = 168
    /\ ttls[<<"second", "location">>] = 720
    /\ ttls[<<"first", "weekly">>] = 168

-----------------------------------------------------------------------------
(* Claims about what the cache leaves alone *)

\* the record under key k is not the same after the step
RecordChanges(k) ==
    /\ StorageKey(k) \in DOMAIN localStorage
    /\ \/ StorageKey(k) \notin DOMAIN localStorage'
       \/ localStorage'[StorageKey(k)] # localStorage[StorageKey(k)]

\* C22: the record under a key changes only in a step that is a save on
\* that key, a get on that key that finds its entry expired (and removes
\* it), or a write or clearing from outside; a get that finds a live entry
\* leaves the whole store as it is.
C22_EntriesPersist ==
    [][/\ \A k \in Keys :
             RecordChanges(k) =>
                \/ lastCall'.op = "save" /\ lastCall'.key = k /\ ~lastCall'.threw
                \/ /\ lastCall'.op = "get" /\ lastCall'.key = k
                   /\ lastCall'.found = "expired"
                   /\ StorageKey(k) \notin DOMAIN localStorage'
                \/ lastCall' = NoCall /\ lastSave'[k].by \in {"external", "cleared"}
       /\ (lastCall'.op = "get" /\ lastCall'.found # "expired") =>
             localStorage' = localStorage
      ]_vars

C22_Witness ==
    \E k \in Keys, other \in Keys :
        /\ k # other
        /\ GotAfterSave(k)
        /\ lastCall.found = "live"
        /\ lastCall.ret = lastSave[k].data
        /\ Age(k) > 0
        /\ Stored(k).props["timestamp"] = N(lastSave[k].at)
        /\ lastSave[other].by = "save"
        /\ StorageKey(other) \in DOMAIN localStorage

-----------------------------------------------------------------------------
(* Claims about chains side by side *)

\* the arguments of the call of withRetry that a chain running alone has
\* reached after its operation has been invoked n times
AloneRetries(n) == DEFAULT_RETRIES - (n - 1)

AloneDelay(n) == DEFAULT_DELAY * Pow2(n - 1)

\* both callers have a chain under way
SideBySide ==
    \A r \in Requests : req[r].pc \in {"awaitFn", "awaitTimer"}

\* C23: whatever the other caller's chain does, a chain has the attempts
\* left and the delay of a chain running alone with as many invocations,
\* it has invoked its operation once more than it has seen it fail (as
\* often while it waits for its timer or has given up), and a step of one
\* caller leaves the other caller's chain and counts as they are.
C23_ChainsIndependent ==
    /\ [](\A r \in Requests :
            LET q == req[r]
            IN q.pc # "idle" /\ q.invocations >= 1 =>
                  /\ q.ch.retries = AloneRetries(q.invocations)
                  /\ q.ch.delay = AloneDelay(q.invocations)
                  /\ q.invocations <= 1 + DEFAULT_RETRIES
                  /\ q.pc \in {"awaitFn", "returned"} => q.invocations = q.failures + 1
                  /\ q.pc \in {"awaitTimer", "threw"} => q.invocations = q.failures
                  /\ q.pc = "awaitTimer" => q.ch.timer = AloneDelay(q.invocations)
                  /\ q.pc = "threw" => q.invocations = 1 + DEFAULT_RETRIES)
    /\ [][\A r \in Requests :
             req'[r] # req[r] => \A o \in Requests \ {r} : req'[o] = req[o]]_vars

C23_Witness ==
    /\ SideBySide
    /\ req["syncData"].op = "getCoordinates"
    /\ req["view"].op = "getCoordinates"
    /\ req["syncData"].failures = 2
    /\ req["syncData"].ch.retries = 0
    /\ req["syncData"].ch.delay = 8000
    /\ req["view"].failures = 0
    /\ req["view"].ch.retries = 2
    /\ req["view"].ch.delay = 2000

\* C24: a call that finds under its key a live entry holding a falsy value
\* (the decoded null an earlier call saved) returns that value and does not
\* invoke the model.
C24_FalsyValueHits ==
    \A r \in Requests :
        (req[r].lookup = "live" /\ req[r].cached \in Falsy) =>
            /\ req[r].pc = "returned"
            /\ req[r].result = req[r].cached
            /\ req[r].invocations = 0

-----------------------------------------------------------------------------
(* Claims about the error of a chain *)

\* C25: no error leaves a chain while it still retries; the error a chain
\* is rejected with is the one its last invocation failed with, whatever
\* the earlier invocations failed with.
C25_LastErrorWins ==
    \A c \in Chains :
        /\ chain[c].pc \in {"awaitFn", "awaitTimer"} => chain[c].outcome = ""
        /\ chain[c].pc = "rejected" =>
              /\ hist[c].errors # <<>>
              /\ chain[c].outcome = hist[c].errors[Len(hist[c].errors)]
              /\ chain[c].outcome \in Errors

C25_Witness ==
    \E c \in Chains :
        /\ chain[c].pc = "rejected"
        /\ hist[c].errors = <<"NetworkError", "Decoding failed.", API_KEY_MISSING>>
        /\ chain[c].outcome = API_KEY_MISSING

-----------------------------------------------------------------------------
(* Claims about HoroscopeView *)

\* C26: when no fetch is in flight, the prediction the view shows is the
\* one of the current selection.
C26_ShowsLatestSelection ==
    (horo.inflight = {} /\ Displayed(horo)) => horo.prediction = horo.selected

\* C27: the loading flag is up exactly while a fetch is in flight.
C27_LoadingWhileInFlight ==
    horo.mounted => (horo.loading <=> horo.inflight # {})

-----------------------------------------------------------------------------
(* Claims about KundaliView *)

\* C28: the chat history alternates user, model, user, model from a user
\* message on, each model message being the answer to the question right
\* before it, and at most one question is pending.
C28_ChatAlternates ==
    /\ \A i \in 1..Len(kundali.chatHistory) :
          /\ kundali.chatHistory[i].role = IF i % 2 = 1 THEN "user" ELSE "model"
          /\ i % 2 = 0 => kundali.chatHistory[i].q = kundali.chatHistory[i - 1].q
    /\ Cardinality(kundali.pending) <= 1

-----------------------------------------------------------------------------
(* Claims about NumerologyView *)

\* the digital root of a non-negative integer
DigitalRoot(n) == IF n = 0 THEN 0 ELSE 1 + ((n - 1) % 9)

\* the sum of the eight digits of the date entered, from its numbers
EightDigits(d) ==
    LET ds(n) == (n % 10) + ((n \div 10) % 10) + ((n \div 100) % 10)
                     + ((n \div 1000) % 10)
    IN  ds(d[1]) + ds(d[2]) + ds(d[3])

\* C30: for a valid date YYYY-MM-DD the mulank is the digital root of the
\* day of the month and the bhagyank the digital root of the sum of the
\* eight digits; both lie in 1..9; and the summation terminates, each
\* number above 9 having a smaller digit sum.
C30_NumerologyNumbers ==
    numerology.dob # <<>> =>
        /\ Len(numerology.dob) = 10
        /\ numerology.numerologyData.mulank = DigitalRoot(numerology.entered[3])
        /\ numerology.numerologyData.bhagyank
               = DigitalRoot(EightDigits(numerology.entered))
        /\ numerology.numerologyData.mulank \in 1..9
        /\ numerology.numerologyData.bhagyank \in 1..9
        /\ \A n \in 10..EightDigits(numerology.entered) :
               reduceSum(toString(n)) < n

\* a date whose day and whose digit sum both need a second summation
C30_Witness ==
    /\ numerology.dob = dateValue(<<1999, 9, 29>>)
    /\ numerology.numerologyData.mulank = 2
    /\ numerology.numerologyData.bhagyank = 3

-----------------------------------------------------------------------------
(* Claims about the preferred sign *)

\* the record under a storage key, or that there is none
RecordAt(st, sk) == IF sk \in DOMAIN st THEN <<"record", st[sk]>> ELSE <<"absent">>

\* C29: no step of getCoordinates or getHoroscope (their get, their save)
\* creates, overwrites or removes the record of the preferred sign, and
\* setUserSign changes no other record.
C29_PrefSignApart ==
    [][/\ req' # req =>
            RecordAt(localStorage', StorageKey(PREF_SIGN))
                = RecordAt(localStorage, StorageKey(PREF_SIGN))
       /\ req' = req =>
            \A sk \in (DOMAIN localStorage \cup DOMAIN localStorage') \ {StorageKey(PREF_SIGN)} :
                RecordAt(localStorage', sk) = RecordAt(localStorage, sk)]_vars

\* the preferred sign is set beside the entry of the location pref sign and
\* the horoscope entry of Taurus, both saved by their requests
C29_Witness ==
    /\ getUserSign(localStorage) = "Taurus"
    /\ StorageKey(coordsKey(PrefLocation)) \in DOMAIN localStorage
    /\ req["syncData"].saved.written
    /\ req["syncData"].args[1] = "Taurus"
    /\ req["view"].saved.written

====
